---------------------------- MODULE Spec2Model ----------------------------
(***************************************************************************)
(* A model of the rule-based command classifier of jirabot                 *)
(* (src/nlu_processor.py, class NLUProcessor).                             *)
(*                                                                         *)
(* Text is modelled character by character: a Python str is a sequence of  *)
(* one-character strings, so that lower(), strip(), title(), the substring *)
(* tests and every regular expression of process_command are computed as   *)
(* the code computes them.                                                 *)
(***************************************************************************)
EXTENDS Naturals, Sequences, FiniteSets

VARIABLES
    nlp,            \* self.nlp: TRUE when spacy.load succeeded, FALSE for None
    pc,             \* where the caller of the classifier is: "idle" | "returned"
    command_text,   \* the argument of the last process_command call
    parsed_data,    \* the record the last process_command call returned
    history,        \* the calls made on the classifier so far: <<[text, result], ...>>
    jira_client,    \* JiraService.jira_client: TRUE for a connected client, FALSE for None
    invoked,        \* the JiraService methods main called for the current command
    exit_status,    \* <<>> while the program runs, <<n>> once it ended with status n
    outcome         \* how the last JiraService call ended: [returned, raised, backend]

vars ==
    <<nlp, pc, command_text, parsed_data, history, jira_client, invoked, exit_status,
      outcome>>

\* what only main.py and jira_service.py touch
mainVars == <<jira_client, invoked, exit_status, outcome>>

---------------------------------------------------------------------------
(* Characters and Python's str methods                                     *)

LowerAlpha ==
    <<"a","b","c","d","e","f","g","h","i","j","k","l","m",
      "n","o","p","q","r","s","t","u","v","w","x","y","z">>

UpperAlpha ==
    <<"A","B","C","D","E","F","G","H","I","J","K","L","M",
      "N","O","P","Q","R","S","T","U","V","W","X","Y","Z">>

LowerSet == {LowerAlpha[i] : i \in DOMAIN LowerAlpha}
UpperSet == {UpperAlpha[i] : i \in DOMAIN UpperAlpha}
DigitSet == {"0","1","2","3","4","5","6","7","8","9"}

lowerOf == [c \in UpperSet |-> LowerAlpha[CHOOSE i \in DOMAIN UpperAlpha : UpperAlpha[i] = c]]
upperOf == [c \in LowerSet |-> UpperAlpha[CHOOSE i \in DOMAIN LowerAlpha : LowerAlpha[i] = c]]

\* [A-Z] under re.IGNORECASE
IsLetter(c) == c \in LowerSet \/ c \in UpperSet
\* \d
IsDigit(c) == c \in DigitSet
\* \w, the class \b is defined by
IsWord(c) == IsLetter(c) \/ IsDigit(c) \/ c = "_"
\* \s, and the characters str.strip() removes
IsSpace(c) == c = " " \/ c = "\t"
\* ['\"]
IsQuote(c) == c = "'" \/ c = "\""

LowerChar(c) == IF c \in UpperSet THEN lowerOf[c] ELSE c
UpperChar(c) == IF c \in LowerSet THEN upperOf[c] ELSE c

\* str.lower()
Lower(s) == [i \in 1..Len(s) |-> LowerChar(s[i])]
\* str.upper()
Upper(s) == [i \in 1..Len(s) |-> UpperChar(s[i])]

\* s[i:] for a 1-based i
From(s, i) == SubSeq(s, i, Len(s))

\* `sub in s`
Contains(s, sub) ==
    \E i \in 1..(Len(s) + 1) :
        i + Len(sub) - 1 <= Len(s) /\ \A k \in 1..Len(sub) : s[i + k - 1] = sub[k]

\* str.find(sub) + 1: the first position of sub in s, 0 when there is none
Find(s, sub) ==
    LET hits == {i \in 1..Len(s) :
                     i + Len(sub) - 1 <= Len(s) /\ \A k \in 1..Len(sub) : s[i + k - 1] = sub[k]}
    IN  IF hits = {} THEN 0 ELSE CHOOSE i \in hits : \A j \in hits : i <= j

\* str.strip()
Strip(s) ==
    LET keep == {i \in 1..Len(s) : ~IsSpace(s[i])}
    IN  IF keep = {} THEN <<>>
        ELSE SubSeq(s, CHOOSE i \in keep : \A j \in keep : i <= j,
                       CHOOSE i \in keep : \A j \in keep : i >= j)

\* str.title(): a cased character is upper-cased after an uncased one (or at
\* the start) and lower-cased after a cased one
Title(s) ==
    [i \in 1..Len(s) |->
        IF i = 1 \/ ~IsLetter(s[i - 1]) THEN UpperChar(s[i]) ELSE LowerChar(s[i])]

\* str.capitalize()
Capitalize(s) ==
    [i \in 1..Len(s) |-> IF i = 1 THEN UpperChar(s[i]) ELSE LowerChar(s[i])]

\* str.replace(old, ""): every non-overlapping occurrence, left to right
RECURSIVE Remove(_, _)
Remove(s, old) ==
    LET i == Find(s, old)
    IN  IF Len(old) = 0 \/ i = 0 THEN s
        ELSE SubSeq(s, 1, i - 1) \o Remove(From(s, i + Len(old)), old)

---------------------------------------------------------------------------
(* Pieces of regular expressions                                           *)

\* the literal w (given in lower case) matches at i under re.IGNORECASE
At(s, i, w) ==
    i >= 1 /\ i + Len(w) - 1 <= Len(s) /\ \A k \in 1..Len(w) : LowerChar(s[i + k - 1]) = w[k]

\* where a greedy \s* starting at i ends: the first position >= i that holds no space
SkipSpaces(s, i) ==
    CHOOSE j \in i..(Len(s) + 1) :
        /\ \A k \in i..(j - 1) : IsSpace(s[k])
        /\ j = Len(s) + 1 \/ ~IsSpace(s[j])

\* \b at position i (between s[i-1] and s[i])
Boundary(s, i) ==
    LET before == i >= 2 /\ i - 1 <= Len(s) /\ IsWord(s[i - 1])
        after  == i >= 1 /\ i <= Len(s) /\ IsWord(s[i])
    IN  before # after

\* ['\"](.+?)['\"] with the opening quote at k: the position of the closing
\* quote, which is the first quote after at least one character; 0 for no match
ClosingQuote(s, k) ==
    LET qs == {q \in (k + 2)..Len(s) : IsQuote(s[q])}
    IN  IF k >= 1 /\ k <= Len(s) /\ IsQuote(s[k]) /\ qs # {}
        THEN CHOOSE q \in qs : \A r \in qs : q <= r
        ELSE 0

\* the least element of a non-empty set of positions
Least(S) == CHOOSE i \in S : \A j \in S : i <= j

NoMatch == [found |-> FALSE]


\* the words the code looks for, as Python string literals in lower case
W_create      == <<"c","r","e","a","t","e">>
W_new         == <<"n","e","w">>
W_story       == <<"s","t","o","r","y">>
W_task        == <<"t","a","s","k">>
W_defect      == <<"d","e","f","e","c","t">>
W_bug         == <<"b","u","g">>
W_close       == <<"c","l","o","s","e">>
W_resolve     == <<"r","e","s","o","l","v","e">>
W_abandon     == <<"a","b","a","n","d","o","n">>
W_transition  == <<"t","r","a","n","s","i","t","i","o","n">>
W_modify      == <<"m","o","d","i","f","y">>
W_update      == <<"u","p","d","a","t","e">>
W_to          == <<"t","o">>
W_as          == <<"a","s">>
W_a           == <<"a">>
W_an          == <<"a","n">>
W_in          == <<"i","n">>
W_for         == <<"f","o","r">>
W_on          == <<"o","n">>
W_with        == <<"w","i","t","h">>
W_and         == <<"a","n","d">>
W_project     == <<"p","r","o","j","e","c","t">>
W_description == <<"d","e","s","c","r","i","p","t","i","o","n">>
W_summary     == <<"s","u","m","m","a","r","y">>
W_title       == <<"t","i","t","l","e">>
W_issue       == <<"i","s","s","u","e">>

\* entity values the code writes as literals
V_Story     == <<"S","t","o","r","y">>
V_Closed    == <<"C","l","o","s","e","d">>
V_Resolved  == <<"R","e","s","o","l","v","e","d">>
V_Abandoned == <<"A","b","a","n","d","o","n","e","d">>
V_Unknown   == <<"U","n","k","n","o","w","n">>
V_summary     == W_summary
V_description == W_description

\* ["story", "task", "defect", "bug"], in the order the code lists them
TypeKeywords == <<W_story, W_task, W_defect, W_bug>>

\* the end (exclusive) of the first of the alternatives ws that matches at i; 0 for none
AltEnd(s, i, ws) ==
    LET hits == {n \in DOMAIN ws : At(s, i, ws[n])}
    IN  IF hits = {} THEN 0 ELSE i + Len(ws[Least(hits)])

---------------------------------------------------------------------------
(* The regular expressions of process_command.  Each operator gives        *)
(* re.search's match: the leftmost start at which the pattern matches, and *)
(* at that start the match Python's backtracking finds first.              *)

Match(i, q, g) == [found |-> TRUE, start |-> i, end |-> q, group |-> g]

\* ['\"](.+?)['\"] with the opening quote at k, in a match that starts at i
QuotedClose(s, i, k, q) ==
    IF q # 0 THEN Match(i, q, SubSeq(s, k + 1, q - 1)) ELSE NoMatch

QuotedAt(s, i, k) == QuotedClose(s, i, k, ClosingQuote(s, k))

\* the leftmost of the matches at the starts `starts`
Leftmost(at, starts) ==
    IF starts = {} THEN NoMatch ELSE at[Least(starts)]

\* (?:with|and)\s+(?:description)\s*['\"](.+?)['\"] matched at start i:
\* ... description\s*['\"](.+?)['\"] with "description" expected at d
DescriptionWord(s, i, d) ==
    IF At(s, d, W_description)
    THEN QuotedAt(s, i, SkipSpaces(s, d + Len(W_description)))
    ELSE NoMatch

\* ... \s+ after the keyword that ends before p
DescriptionSpaces(s, i, p) ==
    IF p # 0 /\ p <= Len(s) /\ IsSpace(s[p])
    THEN DescriptionWord(s, i, SkipSpaces(s, p))
    ELSE NoMatch

DescriptionAt(s, i) == DescriptionSpaces(s, i, AltEnd(s, i, <<W_with, W_and>>))

description_match(s) ==
    Leftmost([i \in 1..Len(s) |-> DescriptionAt(s, i)],
             {i \in 1..Len(s) : DescriptionAt(s, i).found})

\* re.sub of the description pattern by "": every non-overlapping match is removed
RECURSIVE description_sub(_)
DescriptionCut(s, m) ==
    IF ~m.found THEN s
    ELSE SubSeq(s, 1, m.start - 1) \o description_sub(From(s, m.end + 1))

description_sub(s) == DescriptionCut(s, description_match(s))

\* the start of the run of letters that ends the text (Len(s) + 1 when none does)
LastRun(s, nonletters) ==
    IF nonletters = {} THEN 1
    ELSE (CHOOSE j \in nonletters : \A r \in nonletters : j >= r) + 1

\* (?:in|for|on)\s*(?:project)?\s*(\b[A-Z]{2,10}\b)$ matched at start i.
\* The group ends the text and starts at a \b, so it is the last run of letters,
\* starting at g; between the keyword, which ends before p, and the group lie
\* spaces, or spaces, "project" and spaces; a is where the first \s* ends.
ProjectTail(s, i, p, g, a) ==
    IF /\ g >= p
       /\ Len(s) - g + 1 >= 2 /\ Len(s) - g + 1 <= 10
       /\ Boundary(s, g)
       /\ \/ a = g
          \/ At(s, a, W_project) /\ SkipSpaces(s, a + Len(W_project)) = g
    THEN Match(i, Len(s), From(s, g))
    ELSE NoMatch

ProjectKeyword(s, i, p) ==
    IF p # 0
    THEN ProjectTail(s, i, p, LastRun(s, {j \in 1..Len(s) : ~IsLetter(s[j])}), SkipSpaces(s, p))
    ELSE NoMatch

ProjectAt(s, i) == ProjectKeyword(s, i, AltEnd(s, i, <<W_in, W_for, W_on>>))

project_match(s) ==
    Leftmost([i \in 1..Len(s) |-> ProjectAt(s, i)],
             {i \in 1..Len(s) : ProjectAt(s, i).found})

\* (?:called|titled|for|summary)?\s*['\"](.+?)['\"].  The optional keyword and
\* the spaces may match nothing and only group(1) is read: the leftmost match is
\* the one whose opening quote is the first quote that has a closing quote.
SummaryOpen(s, opens) ==
    IF opens = {} THEN NoMatch ELSE QuotedAt(s, Least(opens), Least(opens))

summary_match(s) == SummaryOpen(s, {k \in 1..Len(s) : ClosingQuote(s, k) # 0})

\* (?:create|new)\s*(?:a|an)?\s*(?:story|task|defect|bug)\s*(.+?)$ matched at
\* start i: ... \s*(.+?)$ after the type keyword, which ends before e.  \s* is
\* greedy and (.+?) needs one character: when only spaces follow the keyword,
\* \s* gives the last of them back.
FallbackGroup(s, i, b) ==
    Match(i, Len(s), IF b <= Len(s) THEN From(s, b) ELSE From(s, Len(s)))

FallbackRest(s, i, e) ==
    IF e # 0 /\ e <= Len(s) THEN FallbackGroup(s, i, SkipSpaces(s, e)) ELSE NoMatch

\* ... the type keyword at t
FallbackType(s, i, t) == FallbackRest(s, i, AltEnd(s, t, TypeKeywords))

\* ... (?:a|an)?\s* at a, where the \s* after the verb ends: the type keyword
\* follows "a", or else "an", or else there is no article
FallbackArticle(s, i, a) ==
    IF At(s, a, W_a) /\ AltEnd(s, SkipSpaces(s, a + 1), TypeKeywords) # 0
    THEN FallbackType(s, i, SkipSpaces(s, a + 1))
    ELSE IF At(s, a, W_an) /\ AltEnd(s, SkipSpaces(s, a + 2), TypeKeywords) # 0
    THEN FallbackType(s, i, SkipSpaces(s, a + 2))
    ELSE FallbackType(s, i, a)

FallbackVerb(s, i, p) ==
    IF p # 0 THEN FallbackArticle(s, i, SkipSpaces(s, p)) ELSE NoMatch

FallbackAt(s, i) == FallbackVerb(s, i, AltEnd(s, i, <<W_create, W_new>>))

fallback_summary_match(s) ==
    Leftmost([i \in 1..Len(s) |-> FallbackAt(s, i)],
             {i \in 1..Len(s) : FallbackAt(s, i).found})

\* (\b[A-Z]{1,10}-\d+\b) matched at start i, with the run of letters ending
\* before h and the run of digits after the hyphen ending before z
IssueKeyRuns(s, i, h, z) ==
    IF /\ h - i >= 1 /\ h - i <= 10
       /\ h <= Len(s) /\ s[h] = "-"
       /\ z - (h + 1) >= 1
       /\ Boundary(s, z)
    THEN Match(i, z - 1, SubSeq(s, i, z - 1))
    ELSE NoMatch

IssueKeyLetters(s, i, h) ==
    IssueKeyRuns(s, i, h, Least({j \in (h + 1)..(Len(s) + 2) : j >= Len(s) + 1 \/ ~IsDigit(s[j])}))

IssueKeyAt(s, i) ==
    IF Boundary(s, i) /\ IsLetter(s[i])
    THEN IssueKeyLetters(s, i, Least({j \in i..(Len(s) + 1) : j = Len(s) + 1 \/ ~IsLetter(s[j])}))
    ELSE NoMatch

issue_key_match(s) ==
    Leftmost([i \in 1..Len(s) |-> IssueKeyAt(s, i)],
             {i \in 1..Len(s) : IssueKeyAt(s, i).found})

\* (?:<fields>)\s*(?:to|as)\s*['\"](.+?)['\"] matched at start i:
\* ... \s*['\"](.+?)['\"] after "to" or "as", which ends before b
FieldToValue(s, i, b) ==
    IF b # 0 THEN QuotedAt(s, i, SkipSpaces(s, b)) ELSE NoMatch

FieldToWord(s, i, p) ==
    IF p # 0 THEN FieldToValue(s, i, AltEnd(s, SkipSpaces(s, p), <<W_to, W_as>>)) ELSE NoMatch

FieldToAt(s, i, fields) == FieldToWord(s, i, AltEnd(s, i, fields))

\* (?:summary|title)\s*(?:to|as)\s*['\"](.+?)['\"]
summary_to_match(s) ==
    Leftmost([i \in 1..Len(s) |-> FieldToAt(s, i, <<W_summary, W_title>>)],
             {i \in 1..Len(s) : FieldToAt(s, i, <<W_summary, W_title>>).found})

\* (?:description)\s*(?:to|as)\s*['\"](.+?)['\"]
desc_to_match(s) ==
    Leftmost([i \in 1..Len(s) |-> FieldToAt(s, i, <<W_description>>)],
             {i \in 1..Len(s) : FieldToAt(s, i, <<W_description>>).found})

\* the characters of s at the positions `keep`, in order
Keep(s, keep) ==
    [n \in 1..Cardinality(keep) |->
        s[CHOOSE j \in keep : Cardinality({k \in keep : k <= j}) = n]]

\* the positions at which the whole word "issue" stands: \bissue\b
IssueWords(s) ==
    {i \in 1..Len(s) :
        /\ i + Len(W_issue) - 1 <= Len(s)
        /\ SubSeq(s, i, i + Len(W_issue) - 1) = W_issue
        /\ Boundary(s, i) /\ Boundary(s, i + Len(W_issue))}

\* s without the spans of length n that start at the positions `hits`
Without(s, hits, n) ==
    Keep(s, {j \in 1..Len(s) : ~\E i \in hits : i <= j /\ j < i + n})

\* re.sub(r"\bissue\b", "", s): every whole word "issue" is removed
issue_sub(s) == Without(s, IssueWords(s), Len(W_issue))

---------------------------------------------------------------------------
(* NLUProcessor.process_command                                            *)

\* parsed_data["entities"][k] = v
Put(entities, k, v) ==
    [x \in (DOMAIN entities) \cup {k} |-> IF x = k THEN v ELSE entities[x]]

\* entities.get(k): truthy when the key is present with a non-empty value
Truthy(entities, k) == k \in DOMAIN entities /\ entities[k] # <<>>

\* {}
NoEntities == [x \in {} |-> <<>>]

\* the create trigger of the first `if`
IsCreateCommand(text) ==
    /\ Contains(text, W_create) \/ Contains(text, W_new)
    /\ \E n \in DOMAIN TypeKeywords : Contains(text, TypeKeywords[n])

\* the trigger of the first `elif`
IsTransitionCommand(text) ==
    \/ Contains(text, W_close) \/ Contains(text, W_resolve)
    \/ Contains(text, W_abandon) \/ Contains(text, W_transition)

\* the trigger of the second `elif`
IsModifyCommand(text) ==
    Contains(text, W_modify) \/ Contains(text, W_update)

\* the for/else over the type keywords: the first keyword of the list that
\* occurs in the text, capitalised; "Story" when none does
FirstType(hits) ==
    IF hits = {} THEN V_Story ELSE Capitalize(TypeKeywords[Least(hits)])

IssueType(text) ==
    FirstType({n \in DOMAIN TypeKeywords : Contains(text, TypeKeywords[n])})

\* SummaryOf that consults the fallback rule before the quoted rule
SummaryOf_FallbackFirst(sm, fm) ==
    IF fm.found /\ fm.group # <<>> THEN [set |-> TRUE, value |-> Strip(fm.group)]
    ELSE IF sm.found THEN [set |-> TRUE, value |-> Strip(sm.group)]
    ELSE [set |-> FALSE]

\* step 3 of the create branch, on the command c2 left by steps 1 and 2: the
\* summary, quoted or else whatever follows the type keyword
SummaryOf(sm, fm) ==
    IF sm.found THEN [set |-> TRUE, value |-> Strip(sm.group)]
    ELSE IF fm.found /\ fm.group # <<>> THEN [set |-> TRUE, value |-> Strip(fm.group)]
    ELSE [set |-> FALSE]

\* CreateResult that requires a project key too, as the caller in main.py does
CreateResult_NeedsProject(e3) ==
    [intent   |-> IF Truthy(e3, "summary") /\ Truthy(e3, "project_key")
                  THEN "create" ELSE "unclear_create",
     entities |-> e3]

CreateResult(e3) ==
    [intent   |-> IF Truthy(e3, "summary") THEN "create" ELSE "unclear_create",
     entities |-> e3]

CreateSummary(e2, summary) ==
    CreateResult(IF summary.set THEN Put(e2, "summary", summary.value) ELSE e2)

CreateStep3(c2, e2) ==
    CreateSummary(e2, SummaryOf(summary_match(c2), fallback_summary_match(c2)))

\* step 2, on the command c1 left by step 1: the project key at the end, removed
\* (the pattern ends at $, so re.sub removes the one match)
CreateProject(c1, e1, pm) ==
    IF pm.found
    THEN CreateStep3(SubSeq(c1, 1, pm.start - 1), Put(e1, "project_key", Upper(pm.group)))
    ELSE CreateStep3(c1, e1)

\* CreateStep2 whose project pattern looks past a quote that ends the command
CreateStep2_QuoteBlind(c1, e1) ==
    CreateProject(c1, e1,
                  project_match(IF c1 # <<>> /\ IsQuote(c1[Len(c1)])
                                THEN SubSeq(c1, 1, Len(c1) - 1) ELSE c1))

CreateStep2(c1, e1) == CreateProject(c1, e1, project_match(c1))

\* step 1: the description, removed from the command wherever it matches
CreateDescription(cmd, e0, dm) ==
    IF dm.found
    THEN CreateStep2(description_sub(cmd), Put(e0, "description", Strip(dm.group)))
    ELSE CreateStep2(cmd, e0)

CreateStep1(cmd, e0) == CreateDescription(cmd, e0, description_match(cmd))

\* the create branch
CreateBranch(cmd) ==
    CreateStep1(cmd, Put(NoEntities, "issue_type", IssueType(Lower(cmd))))

\* the transition name taken from the text after the first "to", at i in the
\* lower-cased command: parts = text.split("to", 1), and len(parts) > 1 as
\* "to" is in the text
PhraseTitle(phrase) == Title(Strip(issue_sub(phrase)))

PhraseWithoutKey(e1, phrase) ==
    PhraseTitle(IF Truthy(e1, "issue_key")
                THEN Strip(Remove(phrase, Lower(e1["issue_key"])))
                ELSE phrase)

TransitionPhrase(text, e1, i) ==
    IF i # 0
    THEN Put(e1, "transition_name", PhraseWithoutKey(e1, Strip(From(text, i + Len(W_to)))))
    ELSE Put(e1, "transition_name", V_Unknown)

\* TransitionName with "resolve" tested before "close"
TransitionName_ResolveFirst(text, e1) ==
    IF Contains(text, W_resolve) THEN Put(e1, "transition_name", V_Resolved)
    ELSE IF Contains(text, W_close) THEN Put(e1, "transition_name", V_Closed)
    ELSE IF Contains(text, W_abandon) THEN Put(e1, "transition_name", V_Abandoned)
    ELSE IF Contains(text, W_transition) /\ Contains(text, W_to)
    THEN TransitionPhrase(text, e1, Find(text, W_to))
    ELSE e1

\* the transition name: by keyword, or the text after the first "to"
TransitionName(text, e1) ==
    IF Contains(text, W_close) THEN Put(e1, "transition_name", V_Closed)
    ELSE IF Contains(text, W_resolve) THEN Put(e1, "transition_name", V_Resolved)
    ELSE IF Contains(text, W_abandon) THEN Put(e1, "transition_name", V_Abandoned)
    ELSE IF Contains(text, W_transition) /\ Contains(text, W_to)
    THEN TransitionPhrase(text, e1, Find(text, W_to))
    ELSE e1

\* IssueKeyEntity that keeps the key in the case it was typed
IssueKeyEntity_AsTyped(km) ==
    IF km.found THEN Put(NoEntities, "issue_key", km.group) ELSE NoEntities

\* the issue key of the transition and modify branches
IssueKeyEntity(km) ==
    IF km.found THEN Put(NoEntities, "issue_key", Upper(km.group)) ELSE NoEntities

\* TransitionResult with the downgraded intent misspelt
TransitionResult_Typo(e2) ==
    [intent   |-> IF ~Truthy(e2, "issue_key") THEN "unclear_transtion"
                  ELSE IF ~Truthy(e2, "transition_name") THEN "unclear_transtion"
                  ELSE "transition",
     entities |-> e2]

TransitionResult(e2) ==
    [intent   |-> IF ~Truthy(e2, "issue_key") THEN "unclear_transition"
                  ELSE IF ~Truthy(e2, "transition_name") THEN "unclear_transition"
                  ELSE "transition",
     entities |-> e2]

\* the transition branch
TransitionBranch(cmd) ==
    TransitionResult(TransitionName(Lower(cmd), IssueKeyEntity(issue_key_match(cmd))))

\* FieldOf with the description rule tried before the summary rule
FieldOf_DescriptionFirst(e1, sm, dm) ==
    IF dm.found
    THEN Put(Put(e1, "field", V_description), "new_value", Strip(dm.group))
    ELSE IF sm.found
    THEN Put(Put(e1, "field", V_summary), "new_value", Strip(sm.group))
    ELSE e1

\* the field to modify and its new value
FieldOf(e1, sm, dm) ==
    IF sm.found
    THEN Put(Put(e1, "field", V_summary), "new_value", Strip(sm.group))
    ELSE IF dm.found
    THEN Put(Put(e1, "field", V_description), "new_value", Strip(dm.group))
    ELSE e1

ModifyField(cmd, e1) == FieldOf(e1, summary_to_match(cmd), desc_to_match(cmd))

\* ModifyResult that forgets to require the field
ModifyResult_KeyOnly(e2) ==
    [intent   |-> IF ~Truthy(e2, "issue_key") THEN "unclear_modify" ELSE "modify",
     entities |-> e2]

ModifyResult(e2) ==
    [intent   |-> IF ~Truthy(e2, "issue_key") \/ ~Truthy(e2, "field")
                  THEN "unclear_modify" ELSE "modify",
     entities |-> e2]

\* the modify branch
ModifyBranch(cmd) ==
    ModifyResult(ModifyField(cmd, IssueKeyEntity(issue_key_match(cmd))))

\* Branch with the transition trigger tested before the create trigger
Branch_TransitionFirst(text) ==
    IF IsTransitionCommand(text) THEN "transition"
    ELSE IF IsCreateCommand(text) THEN "create"
    ELSE IF IsModifyCommand(text) THEN "modify"
    ELSE "none"

\* the branch the if / elif / elif chain takes for doc.text, the lower-cased command
Branch(text) ==
    IF IsCreateCommand(text) THEN "create"
    ELSE IF IsTransitionCommand(text) THEN "transition"
    ELSE IF IsModifyCommand(text) THEN "modify"
    ELSE "none"

\* RunBranch that looks for an issue key even when no branch is taken
RunBranch_KeyAlways(cmd, branch) ==
    IF branch = "create" THEN CreateBranch(cmd)
    ELSE IF branch = "transition" THEN TransitionBranch(cmd)
    ELSE IF branch = "modify" THEN ModifyBranch(cmd)
    ELSE [intent |-> "unknown", entities |-> IssueKeyEntity(issue_key_match(cmd))]

RunBranch(cmd, branch) ==
    IF branch = "create" THEN CreateBranch(cmd)
    ELSE IF branch = "transition" THEN TransitionBranch(cmd)
    ELSE IF branch = "modify" THEN ModifyBranch(cmd)
    ELSE [intent |-> "unknown", entities |-> NoEntities]

Dispatch(cmd) == RunBranch(cmd, Branch(Lower(cmd)))

\* "NLU model not loaded. Cannot process command."
ModelNotLoaded == "NLU model not loaded. Cannot process command."

\* process_command without the `if not self.nlp` guard
process_command_NoGuard(loaded, cmd) == Dispatch(cmd)

\* process_command(self, command_text) with self.nlp = loaded
process_command(loaded, cmd) ==
    IF ~loaded
    THEN [intent |-> "error", message |-> ModelNotLoaded]
    ELSE Dispatch(cmd)

---------------------------------------------------------------------------
(* The commands the caller passes.  A command is a sequence of clauses     *)
(* joined by single spaces, or an instance of one of the two command forms *)
(* of the module's test commands.                                          *)

MaxClauses      == 3    \* clauses in a create, a transition or a modify command
MaxMixedClauses == 3    \* clauses in a command that mixes the three kinds
MaxStatusWords  == 2    \* words in the status of a transition-form command

Space == <<" ">>

\* " ".join(clauses)
RECURSIVE Join(_)
Join(clauses) ==
    IF Len(clauses) = 0 THEN <<>>
    ELSE IF Len(clauses) = 1 THEN clauses[1]
    ELSE clauses[1] \o Space \o Join(Tail(clauses))

\* the elements of a sequence
Range(items) == {items[i] : i \in DOMAIN items}

\* the sequences of lo..hi elements of the sequence `items`
SeqsOf(items, lo, hi) == UNION {[1..m -> Range(items)] : m \in lo..hi}

\* clauses of create commands
CreateClauses ==
    <<<<"c","r","e","a","t","e"," ","a"," ","s","t","o","r","y"," ","'","U","s","e","r"," ","p","r","o","f","i","l","e","'">>,    \* create a story 'User profile'
      <<"c","r","e","a","t","e"," ","a"," ","t","a","s","k">>,    \* create a task
      <<"U","i">>,    \* Ui
      <<"i","n"," ","A","I","K">>,    \* in AIK
      <<"i","n"," ","p","r","o","j","e","c","t"," ","M","Y","P","R","O","J">>,    \* in project MYPROJ
      <<"w","i","t","h"," ","d","e","s","c","r","i","p","t","i","o","n"," ","'","A","d","d"," ","a"," ","p","a","g","e",".","'">>,    \* with description 'Add a page.'
      <<"'">>>>    \* '

\* clauses of transition commands
TransitionClauses ==
    <<<<"t","r","a","n","s","i","t","i","o","n">>,    \* transition
      <<"c","l","o","s","e">>,    \* close
      <<"r","e","s","o","l","v","e">>,    \* resolve
      <<"a","b","a","n","d","o","n">>,    \* abandon
      <<"Q","A","-","1">>,    \* QA-1
      <<"t","o">>,    \* to
      <<"i","s","s","u","e">>>>    \* issue

\* clauses of modify commands
ModifyClauses ==
    <<<<"m","o","d","i","f","y">>,    \* modify
      <<"Q","A","-","1">>,    \* QA-1
      <<"s","u","m","m","a","r","y"," ","t","o"," ","'","N","e","w","'">>,    \* summary to 'New'
      <<"d","e","s","c","r","i","p","t","i","o","n"," ","a","s"," ","'"," ","x"," ","'">>,    \* description as ' x '
      <<"t","i","t","l","e"," ","a","s"," ","\"","T","\"">>,    \* title as "T"
      <<"t","o"," ","'","V","a","l","'">>,    \* to 'Val'
      <<"d","e","s","c","r","i","p","t","i","o","n"," ","t","o"," ","'"," ","'">>>>    \* description to ' '

\* clauses of commands that mix the kinds, or are of no kind
MixedClauses ==
    <<<<"c","r","e","a","t","e"," ","a"," ","t","a","s","k">>,    \* create a task
      <<"c","l","o","s","e">>,    \* close
      <<"Q","A","-","1">>,    \* QA-1
      <<"u","p","d","a","t","e">>,    \* update
      <<"s","u","m","m","a","r","y"," ","t","o"," ","'","N","e","w","'">>,    \* summary to 'New'
      <<>>,    \* (the empty string)
      <<"w","h","a","t"," ","i","s"," ","t","h","e"," ","s","t","a","t","u","s"," ","o","f">>>>    \* what is the status of

FreeCommands ==
    {Join(c) : c \in SeqsOf(CreateClauses, 0, MaxClauses)}
    \cup {Join(c) : c \in SeqsOf(TransitionClauses, 0, MaxClauses)}
    \cup {Join(c) : c \in SeqsOf(ModifyClauses, 0, MaxClauses)}
    \cup {Join(c) : c \in SeqsOf(MixedClauses, 0, MaxMixedClauses)}

Verbs ==
    <<<<"c","r","e","a","t","e">>,    \* create
      <<"N","e","w">>>>    \* New

Articles ==
    <<<<>>,    \* (the empty string)
      <<" ","a">>,    \*  a
      <<" ","a","n">>>>    \*  an

Called ==
    <<<<>>,    \* (the empty string)
      <<" ","c","a","l","l","e","d">>,    \*  called
      <<" ","t","i","t","l","e","d">>>>    \*  titled

Quotes ==
    <<<<"'">>,    \* '
      <<"\"">>>>    \* "

Summaries ==
    <<<<"I","m","p","l","e","m","e","n","t"," ","l","o","g","i","n">>,    \* Implement login
      <<"W","r","i","t","e"," ","u","s","e","r"," ","s","t","o","r","y">>>>    \* Write user story

Prepositions ==
    <<<<"i","n">>,    \* in
      <<"f","o","r">>,    \* for
      <<"o","n">>>>    \* on

ProjectWord ==
    <<<<>>,    \* (the empty string)
      <<" ","p","r","o","j","e","c","t">>>>    \*  project

ProjectKeys ==
    <<<<"w","e","b">>>>    \* web

IssueKeys ==
    <<<<"Q","A","-","4","5","6">>,    \* QA-456
      <<"t","o","-","1">>>>    \* to-1

StatusWords ==
    <<<<"D","o","n","e">>,    \* Done
      <<"i","n">>,    \* in
      <<"P","R","O","G","R","E","S","S">>>>    \* PROGRESS

\* '<create|new> [a|an] <type> [called|titled] <quote>S<quote> <in|for|on> [project] K'
\* with S the text f.S
CreateFormOf(f) ==
    f.verb \o f.article \o Space \o f.type \o f.called \o Space
           \o f.quote \o f.S \o f.quote
           \o Space \o f.prep \o f.project \o Space \o f.K

CreateFormParams ==
    [verb : Range(Verbs), article : Range(Articles), type : Range(TypeKeywords),
     called : Range(Called), quote : Range(Quotes),
     S : Range(Summaries),
     prep : Range(Prepositions), project : Range(ProjectWord), K : Range(ProjectKeys)]

\* 'transition KEY to STATUS' with STATUS the words f.words
TransitionFormOf(f) ==
    W_transition \o Space \o f.KEY \o Space \o W_to \o Space \o Join(f.words)

TransitionFormParams ==
    [KEY : Range(IssueKeys), words : SeqsOf(StatusWords, 1, MaxStatusWords)]

\* summaries that hold a preposition and a token, as a project clause does
InnerSummaries ==
    <<<<"D","e","s","i","g","n"," ","U","I"," ","i","n"," ","A","J","A","X">>,    \* Design UI in AJAX
      <<"P","l","a","n"," ","f","o","r"," ","p","r","o","j","e","c","t"," ","A","P","I">>,    \* Plan for project API
      <<"W","o","r","k"," ","o","n"," ","D","B">>>>    \* Work on DB

\* what follows the quoted summary
Tails ==
    <<<<>>,    \* (the empty string)
      <<" ","i","n"," ","A","I","K">>,    \*  in AIK
      <<" ","f","o","r"," ","p","r","o","j","e","c","t"," ","w","e","b">>,    \*  for project web
      <<" ","w","i","t","h"," ","d","e","s","c","r","i","p","t","i","o","n"," ","'","A","d","d"," ","a"," ","p","a","g","e",".","'">>>>    \*  with description 'Add a page.'

\* 'create task <quote>S<quote>TAIL' with a project-like clause inside S
QuotedInnerOf(f) ==
    W_create \o Space \o W_task \o Space \o f.quote \o f.S \o f.quote \o f.tail

QuotedInnerParams ==
    [quote : Range(Quotes), S : Range(InnerSummaries), tail : Range(Tails)]

\* summaries written without quotes
Texts ==
    <<<<"I","m","p","l","e","m","e","n","t"," ","U","I">>,    \* Implement UI
      <<"S","i","g","n"," ","i","n">>>>    \* Sign in

UnquotedProjectKeys ==
    <<<<"P","R","O","J">>>>    \* PROJ

\* '<create|new> [a|an] <type> TEXT <in|for|on> [project] K', without quotes
UnquotedFormOf(f) ==
    f.verb \o f.article \o Space \o f.type \o Space \o f.TEXT
           \o Space \o f.prep \o f.project \o Space \o f.K

UnquotedFormParams ==
    [verb : Range(Verbs), article : Range(Articles), type : Range(TypeKeywords),
     TEXT : Range(Texts), prep : Range(Prepositions), project : Range(ProjectWord),
     K : Range(UnquotedProjectKeys)]

\* what stands between the type keyword and the description clause
SummaryParts ==
    <<<<>>,    \* (the empty string)
      <<" ","'","F","i","x","'">>>>    \*  'Fix'

Connectors ==
    <<<<"w","i","t","h">>,    \* with
      <<"a","n","d">>>>    \* and

\* descriptions, one of them with an apostrophe
Descriptions ==
    <<<<"A","d","d"," ","a"," ","p","a","g","e",".">>,    \* Add a page.
      <<"d","o","n","'","t"," ","s","t","o","p">>>>    \* don't stop

DescriptionTails ==
    <<<<>>,    \* (the empty string)
      <<" ","i","n"," ","A","I","K">>>>    \*  in AIK

\* 'create a task[ <quoted summary>] <with|and> description <quote>D<quote>TAIL'
DescriptionFormOf(f) ==
    CreateClauses[2] \o f.summary \o Space \o f.connector \o Space \o W_description
                     \o Space \o f.quote \o f.D \o f.quote \o f.tail

DescriptionFormParams ==
    [summary : Range(SummaryParts), connector : Range(Connectors), quote : Range(Quotes),
     D : Range(Descriptions), tail : Range(DescriptionTails)]

FormCommands ==
    {CreateFormOf(f) : f \in CreateFormParams}
    \cup {TransitionFormOf(f) : f \in TransitionFormParams}
    \cup {QuotedInnerOf(f) : f \in QuotedInnerParams}
    \cup {UnquotedFormOf(f) : f \in UnquotedFormParams}
    \cup {DescriptionFormOf(f) : f \in DescriptionFormParams}

Commands == FreeCommands \cup FormCommands

---------------------------------------------------------------------------
(* The classifier and its caller                                           *)

NoResult == [intent |-> "none"]

\* no JiraService method has been called
NoOutcome == [returned |-> "", raised |-> "", backend |-> <<>>]

\* NLUProcessor(): spacy.load succeeded (nlp is the model) or raised OSError
\* (nlp stays None); no call has been made
Init ==
    /\ nlp \in BOOLEAN
    /\ pc = "idle"
    /\ command_text = <<>>
    /\ parsed_data = NoResult
    /\ history = <<>>
    /\ jira_client = FALSE
    /\ invoked = <<>>
    /\ exit_status = <<>>
    /\ outcome = NoOutcome

\* result = nlu.process_command(cmd), for any command the caller passes
ProcessCommand ==
    /\ pc = "idle"
    /\ \E cmd \in Commands :
        /\ command_text' = cmd
        /\ parsed_data' = process_command(nlp, cmd)
    /\ pc' = "returned"
    /\ UNCHANGED <<nlp, history, mainVars>>

\* the caller is done with the result and turns to its next command
NextCommand ==
    /\ pc = "returned"
    /\ pc' = "idle"
    /\ command_text' = <<>>
    /\ parsed_data' = NoResult
    /\ UNCHANGED <<nlp, history, mainVars>>

Next ==
    \/ ProcessCommand
    \/ NextCommand

Spec == Init /\ [][Next]_vars

---------------------------------------------------------------------------
(* Properties                                                              *)

\* a call has returned
Returned == pc = "returned"

\* doc.text of the last call
Text == Lower(command_text)

\* the entities of the last result (none in an error result)
Entities == IF "entities" \in DOMAIN parsed_data THEN parsed_data.entities ELSE NoEntities

\* one of the words occurs in the text
HasAny(text, words) == \E w \in words : Contains(text, w)

\* the surface triggers of the three kinds of command
CreateTrigger(text) ==
    HasAny(text, {W_create, W_new}) /\ HasAny(text, {W_story, W_task, W_defect, W_bug})
TransitionTrigger(text) == HasAny(text, {W_close, W_resolve, W_abandon, W_transition})
ModifyTrigger(text) == HasAny(text, {W_modify, W_update})

\* the branch the triggers select, the first of create, transition, modify
Selected(text) ==
    IF CreateTrigger(text) THEN "create"
    ELSE IF TransitionTrigger(text) THEN "transition"
    ELSE IF ModifyTrigger(text) THEN "modify"
    ELSE "unknown"

NormalIntents ==
    {"create", "transition", "modify",
     "unclear_create", "unclear_transition", "unclear_modify", "unknown"}

CreateKeys     == {"issue_type", "description", "project_key", "summary"}
TransitionKeys == {"issue_key", "transition_name"}
ModifyKeys     == {"issue_key", "field", "new_value"}

\* C1: every call on a classifier whose model loaded returns a record with an
\* intent among create, transition, modify, unclear_create, unclear_transition,
\* unclear_modify and unknown, whatever the input; "error" is returned only by
\* a classifier whose model did not load.
C1_IntentClosed ==
    Returned =>
        /\ "intent" \in DOMAIN parsed_data
        /\ nlp => parsed_data.intent \in NormalIntents
        /\ parsed_data.intent = "error" => ~nlp

\* C1 witness: the lone quote, an input with an unbalanced quote and no
\* keyword, was classified by a loaded classifier.
C1_Witness ==
    Returned /\ nlp /\ command_text = <<"'">> /\ parsed_data.intent = "unknown"

\* C2: a classifier whose model did not load answers every call with intent
\* "error", a message and no entities, and it stays in that state.
C2_DegradedResult ==
    Returned /\ ~nlp =>
        /\ parsed_data.intent = "error"
        /\ "message" \in DOMAIN parsed_data
        /\ "entities" \notin DOMAIN parsed_data

C2_Degraded == [](C2_DegradedResult) /\ [][~nlp => ~nlp']_vars

\* C2 witness: a degraded classifier answered a command that a loaded one
\* classifies as a transition.
C2_Witness ==
    Returned /\ ~nlp /\ parsed_data.intent = "error"
        /\ command_text = Join(<<W_close, <<"Q","A","-","1">> >>)

C3_Holds(branch) ==
    /\ branch = "create" =>
        /\ parsed_data.intent \in {"create", "unclear_create"}
        /\ DOMAIN Entities \subseteq CreateKeys
    /\ branch = "transition" =>
        /\ parsed_data.intent \in {"transition", "unclear_transition"}
        /\ DOMAIN Entities \subseteq TransitionKeys
    /\ branch = "modify" =>
        /\ parsed_data.intent \in {"modify", "unclear_modify"}
        /\ DOMAIN Entities \subseteq ModifyKeys
    /\ parsed_data.intent \in {"modify", "unclear_modify"} => branch = "modify"
    /\ parsed_data.intent \in {"transition", "unclear_transition"} => branch = "transition"

\* C3: the first trigger that matches, in the order create, transition,
\* modify, decides the intent, and only that branch's entities are produced.
C3_FirstMatchWins == Returned /\ nlp => C3_Holds(Selected(Text))

\* C3 witness: a command with the create trigger, a transition keyword and a
\* modify keyword was classified as a create.
C3_Witness ==
    Returned /\ nlp
        /\ CreateTrigger(Text) /\ TransitionTrigger(Text) /\ ModifyTrigger(Text)
        /\ parsed_data.intent = "create"

\* the commands of C4: a create command with a quoted summary, a description
\* clause and a project clause, in both orders of the two clauses
C4_Head        == CreateClauses[1]    \* create a story 'User profile'
C4_Description == CreateClauses[6]    \* with description 'Add a page.'
C4_Projects    == {[clause |-> CreateClauses[4], KEY |-> <<"A","I","K">>],
                   [clause |-> CreateClauses[5], KEY |-> <<"M","Y","P","R","O","J">>]}

C4_Expected(KEY) ==
    [intent   |-> "create",
     entities |-> [issue_type  |-> V_Story,
                   summary     |-> <<"U","s","e","r"," ","p","r","o","f","i","l","e">>,
                   description |-> <<"A","d","d"," ","a"," ","p","a","g","e",".">>,
                   project_key |-> KEY]]

\* C4: with the description clause before the project clause and with it
\* after the project clause, ending the command, the result is a create with
\* the summary, the description and project_key = upper(KEY).
C4_BothOrders ==
    Returned /\ nlp =>
        \A p \in C4_Projects :
            \/ command_text = Join(<<C4_Head, C4_Description, p.clause>>)
            \/ command_text = Join(<<C4_Head, p.clause, C4_Description>>)
            => parsed_data = C4_Expected(p.KEY)

\* the create-form commands with the result C5 states for each
C5_Cases ==
    {<<CreateFormOf(f),
       [intent   |-> "create",
        entities |-> [issue_type  |-> Capitalize(f.type),
                      summary     |-> f.S,
                      project_key |-> Upper(f.K)]]>> : f \in CreateFormParams}

C5_Commands == {c[1] : c \in C5_Cases}

\* C5: every command of the create form yields intent create with exactly
\* the capitalised type, the summary as written and the upper-cased key.
C5_CreateForm ==
    Returned /\ nlp /\ command_text \in C5_Commands =>
        <<command_text, parsed_data>> \in C5_Cases

\* the transition-form commands with the result C6 states for each: every
\* word of the status title-cased
C6_Cases ==
    {<<TransitionFormOf(f),
       [intent   |-> "transition",
        entities |-> [issue_key       |-> Upper(f.KEY),
                      transition_name |->
                          Join([i \in DOMAIN f.words |-> Capitalize(f.words[i])])]]>> :
     f \in TransitionFormParams}

C6_Commands == {c[1] : c \in C6_Cases}

\* C6: every command 'transition KEY to STATUS' yields intent transition
\* with the upper-cased key and the title-cased status, whatever the letters
\* of the key.
C6_TransitionForm ==
    Returned /\ nlp /\ command_text \in C6_Commands =>
        <<command_text, parsed_data>> \in C6_Cases

\* the name the keywords close, resolve, abandon give, by priority
C7_NameByPriority(text) ==
    IF Contains(text, W_close) THEN V_Closed
    ELSE IF Contains(text, W_resolve) THEN V_Resolved
    ELSE V_Abandoned

C7_Holds(text, key) ==
    /\ key.found /\ HasAny(text, {W_close, W_resolve, W_abandon}) =>
        /\ parsed_data.intent = "transition"
        /\ parsed_data.entities =
               [issue_key |-> Upper(key.group), transition_name |-> C7_NameByPriority(text)]
    /\ ~key.found => parsed_data.intent = "unclear_transition"

\* C7: in the transition branch, a command with an issue key and one of
\* close, resolve, abandon yields intent transition with the first issue key,
\* upper-cased, and the name the keyword priority gives; a command without an
\* issue key yields unclear_transition.
C7_KeywordTransition ==
    Returned /\ nlp /\ Selected(Text) = "transition" =>
        C7_Holds(Text, issue_key_match(command_text))

\* C7 witness: "resolve" stands before "close" in a command with an issue
\* key, and the result is the transition Closed.
C7_Witness ==
    Returned /\ nlp /\ ~CreateTrigger(Text)
        /\ Find(Text, W_resolve) # 0 /\ Find(Text, W_resolve) < Find(Text, W_close)
        /\ parsed_data.intent = "transition"
        /\ parsed_data.entities["transition_name"] = V_Closed

\* only the modify trigger matches
ModifyBranchTaken == Selected(Text) = "modify"

\* the field and the value the two rules of the modify branch give, with the
\* value taken by `value` from the quoted text
C8_Fields(e, sm, dm, value(_)) ==
    /\ sm.found =>
        /\ "field" \in DOMAIN e /\ e["field"] = W_summary
        /\ "new_value" \in DOMAIN e /\ e["new_value"] = value(sm.group)
    /\ ~sm.found /\ dm.found =>
        /\ "field" \in DOMAIN e /\ e["field"] = W_description
        /\ "new_value" \in DOMAIN e /\ e["new_value"] = value(dm.group)
    /\ ~sm.found /\ ~dm.found => "field" \notin DOMAIN e /\ "new_value" \notin DOMAIN e
    /\ "field" \in DOMAIN e => e["field"] \in {W_summary, W_description}
    /\ "field" \in DOMAIN e <=> "new_value" \in DOMAIN e

C8_AsQuoted(V) == V

C9_Missing(keys) == \E k \in keys : ~Truthy(Entities, k)

C9_Holds(branch) ==
    /\ parsed_data.intent = "create" => ~C9_Missing({"summary"})
    /\ parsed_data.intent = "transition" => ~C9_Missing({"issue_key", "transition_name"})
    /\ parsed_data.intent = "modify" => ~C9_Missing({"issue_key", "field"})
    /\ branch = "create" /\ C9_Missing({"summary"}) =>
        parsed_data.intent = "unclear_create"
    /\ branch = "transition" /\ C9_Missing({"issue_key", "transition_name"}) =>
        parsed_data.intent = "unclear_transition"
    /\ branch = "modify" /\ C9_Missing({"issue_key", "field"}) =>
        parsed_data.intent = "unclear_modify"

\* C9: a create result has a non-empty summary, a transition result a
\* non-empty issue_key and transition_name, a modify result a non-empty
\* issue_key and field; and a branch that lacks one of them returns its own
\* unclear intent.
C9_MandatoryEntities == Returned /\ nlp => C9_Holds(Selected(Text))

\* C9 witness: a modify command with an issue key and no field was
\* downgraded to unclear_modify.
C9_Witness ==
    Returned /\ nlp /\ ModifyBranchTaken
        /\ Truthy(Entities, "issue_key") /\ "field" \notin DOMAIN Entities
        /\ parsed_data.intent = "unclear_modify"

\* C10: in the create branch the intent is create exactly when a non-empty
\* summary was extracted, with or without a project key and a description.
C10_SummaryGates ==
    Returned /\ nlp /\ CreateTrigger(Text) =>
        /\ Truthy(Entities, "summary") => parsed_data.intent = "create"
        /\ parsed_data.intent = "unclear_create" => ~Truthy(Entities, "summary")

\* C10 witness: a create result with a quoted summary and neither a project key nor
\* a description.
C10_Witness ==
    Returned /\ nlp /\ parsed_data.intent = "create"
        /\ summary_match(command_text).found /\ Truthy(Entities, "summary")
        /\ "project_key" \notin DOMAIN Entities /\ "description" \notin DOMAIN Entities

\* the only-"to" path of the transition branch: "transition" and "to" occur
\* and none of close, resolve, abandon does
C11_SplitPath(text) ==
    /\ Selected(text) = "transition"
    /\ ~HasAny(text, {W_close, W_resolve, W_abandon})
    /\ Contains(text, W_transition) /\ Contains(text, W_to)

\* C11: on the path that splits on the first "to", transition_name is never
\* the empty string, and for 'transition QA-1 to', where nothing usable
\* follows the "to", it is the literal Unknown.
C11_UnknownName ==
    Returned /\ nlp /\ C11_SplitPath(Text) =>
        /\ "transition_name" \in DOMAIN Entities
        /\ Entities["transition_name"] # <<>>
        /\ command_text = Join(<<TransitionClauses[1], TransitionClauses[5], TransitionClauses[6]>>)
            => Entities["transition_name"] = V_Unknown

\* create commands without any summary text: the create keyword, a type
\* keyword and an optional trailing project clause
C12_Head == CreateClauses[2]    \* create a task

\* C12: a create command with no summary text yields unclear_create and no
\* summary key at all, and the project key of a trailing project clause is
\* still extracted.
C12_NoSummaryKey ==
    Returned /\ nlp =>
        /\ command_text = C12_Head =>
            /\ parsed_data.intent = "unclear_create"
            /\ DOMAIN Entities = {"issue_type"}
        /\ \A p \in C4_Projects :
            command_text = Join(<<C12_Head, p.clause>>) =>
                /\ parsed_data.intent = "unclear_create"
                /\ "summary" \notin DOMAIN Entities
                /\ "project_key" \in DOMAIN Entities /\ Entities["project_key"] = p.KEY

----------------------------------------------------------------------------
(* A session: several calls on one NLUProcessor instance                   *)

MaxCalls == 2    \* calls made on the instance

\* the commands of a session
SessionCommands ==
    {<<>>,
     CreateClauses[2],                                         \* create a task
     Join(<<CreateClauses[1], CreateClauses[4]>>),             \* create a story 'User profile' in AIK
     Join(<<TransitionClauses[2], TransitionClauses[5]>>),     \* close QA-1
     Join(<<TransitionClauses[1], TransitionClauses[5], TransitionClauses[6]>>),   \* transition QA-1 to
     Join(<<ModifyClauses[1], ModifyClauses[2], ModifyClauses[3]>>)}   \* modify QA-1 summary to 'New'

\* a process_command that hands out the record of the previous call again
SessionCall_Cached ==
    /\ pc = "idle"
    /\ Len(history) < MaxCalls
    /\ \E cmd \in SessionCommands :
        /\ command_text' = cmd
        /\ parsed_data' = IF history = <<>> THEN process_command(nlp, cmd)
                          ELSE history[Len(history)].result
        /\ history' = Append(history, [text |-> cmd, result |-> parsed_data'])
    /\ pc' = "returned"
    /\ UNCHANGED <<nlp, mainVars>>

\* result = nlu.process_command(cmd) on an instance that has served the
\* calls of `history`; the call reads self.nlp and binds only locals
SessionCall ==
    /\ pc = "idle"
    /\ Len(history) < MaxCalls
    /\ \E cmd \in SessionCommands :
        /\ command_text' = cmd
        /\ parsed_data' = process_command(nlp, cmd)
        /\ history' = Append(history, [text |-> cmd, result |-> parsed_data'])
    /\ pc' = "returned"
    /\ UNCHANGED <<nlp, mainVars>>

\* the caller turns to its next command, on the same instance
SessionReturn ==
    /\ pc = "returned"
    /\ pc' = "idle"
    /\ command_text' = <<>>
    /\ parsed_data' = NoResult
    /\ UNCHANGED <<nlp, history, mainVars>>

SessionNext ==
    \/ SessionCall
    \/ SessionReturn

SessionSpec == Init /\ [][SessionNext]_vars

\* every call of the session returned what a fresh instance returns for its
\* text, and equal texts got equal results
C13_Results ==
    /\ \A i \in DOMAIN history :
        history[i].result = process_command(nlp, history[i].text)
    /\ \A i, j \in DOMAIN history :
        history[i].text = history[j].text => history[i].result = history[j].result
    /\ pc = "returned" =>
        /\ command_text = history[Len(history)].text
        /\ parsed_data = history[Len(history)].result

----------------------------------------------------------------------------
(* Properties of the classifier, continued                                 *)

\* C14: a command with none of the trigger substrings, the empty string and
\* a status question with an issue key included, returns exactly intent
\* unknown with an empty entities map.
C14_UnknownIsEmpty ==
    Returned /\ nlp /\ Selected(Text) = "unknown" =>
        parsed_data = [intent |-> "unknown", entities |-> NoEntities]

\* C14 witness: a status question that names an issue key got intent unknown
\* and no entity.
C14_Witness ==
    /\ Returned /\ nlp
    /\ command_text = Join(<<MixedClauses[7], MixedClauses[3]>>)    \* what is the status of QA-1
    /\ issue_key_match(command_text).found
    /\ parsed_data.intent = "unknown" /\ DOMAIN parsed_data.entities = {}

----------------------------------------------------------------------------
(* main.py: set-up, then the command loop                                  *)

W_exit == <<"e","x","i","t">>
W_quit == <<"q","u","i","t">>

\* JiraService.__init__ when JIRA(...) connects or raises.  The name
\* JiraError of the first except clause is not defined in jira_service.py
\* (the import is JIRAError), so matching a raised exception against it
\* raises NameError, which leaves the constructor.
JiraService_init(connects) ==
    IF connects
    THEN [jira_client |-> TRUE, raised |-> FALSE]
    ELSE [jira_client |-> FALSE, raised |-> TRUE]

\* JiraService._is_connected
_is_connected(client) == client

\* entities.get(k, default)
Get(entities, k, default) == IF k \in DOMAIN entities THEN entities[k] ELSE default

\* one call of a JiraService method
ServiceCall(method, args, kw) == [method |-> method, args |-> args, kw |-> kw]

\* HandleCreate without the `if project_key and summary` guard
HandleCreate_NoGuard(e) ==
    <<ServiceCall("create_issue",
                  <<Get(e, "project_key", <<>>), Get(e, "summary", <<>>),
                    Get(e, "description", <<>>), Get(e, "issue_type", V_Story)>>, "")>>

HandleCreate(e) ==
    IF Truthy(e, "project_key") /\ Truthy(e, "summary")
    THEN <<ServiceCall("create_issue",
                       <<e["project_key"], e["summary"],
                         Get(e, "description", <<>>), Get(e, "issue_type", V_Story)>>, "")>>
    ELSE <<>>

HandleTransition(e) ==
    IF Truthy(e, "issue_key") /\ Truthy(e, "transition_name")
    THEN <<ServiceCall("transition_issue", <<e["issue_key"], e["transition_name"]>>, "")>>
    ELSE <<>>

HandleAssign(e) ==
    IF Truthy(e, "issue_key") /\ Truthy(e, "assignee")
    THEN <<ServiceCall("update_issue", <<e["issue_key"], e["assignee"]>>, "assignee")>>
    ELSE <<>>

HandleComment(e) ==
    IF Truthy(e, "issue_key") /\ Truthy(e, "comment_body")
    THEN <<ServiceCall("add_comment", <<e["issue_key"], e["comment_body"]>>, "")>>
    ELSE <<>>

HandleModify(e) ==
    IF Truthy(e, "issue_key") /\ Truthy(e, "field") /\ Truthy(e, "new_value")
    THEN IF e["field"] = V_summary
         THEN <<ServiceCall("update_issue", <<e["issue_key"], e["new_value"]>>, "summary")>>
         ELSE IF e["field"] = V_description
         THEN <<ServiceCall("update_issue", <<e["issue_key"], e["new_value"]>>, "description")>>
         ELSE <<>>
    ELSE <<>>

\* the if / elif chain of the loop body on intent
HandleIntent(intent, e) ==
    IF intent = "create" THEN HandleCreate(e)
    ELSE IF intent = "transition" THEN HandleTransition(e)
    ELSE IF intent = "assign" THEN HandleAssign(e)
    ELSE IF intent = "comment" THEN HandleComment(e)
    ELSE IF intent = "modify" THEN HandleModify(e)
    ELSE <<>>

\* intent = parsed_data.get("intent"); entities = parsed_data.get("entities", {})
Handle(parsed) ==
    HandleIntent(parsed.intent, Get(parsed, "entities", NoEntities))

----------------------------------------------------------------------------
(* jira_service.py: the methods main calls, against a tracker that answers *)
(* or refuses                                                              *)

\* the longest list of transitions the tracker offers for an issue
MaxTransitions == 2

\* names of the transitions of the tracker's workflow
TrackerNames ==
    <<Lower(V_Closed), V_Closed, StatusWords[1]>>    \* closed, Closed, Done

\* how the tracker answers during one call: does jira_client.issue find the
\* issue, does jira_client.transitions answer and with which names, does the
\* operation asked for (create_issue, update, transition_issue) go through.
\* A refusal is an exception raised by the jira library.
Trackers ==
    [found : BOOLEAN, lists : BOOLEAN, accepts : BOOLEAN,
     transitions : SeqsOf(TrackerNames, 0, MaxTransitions)]

\* one request that reached the tracker: the client method, the id passed
\* (0 for none) and the list that came back (<<>> for none)
Op(name, id, answer) == [op |-> name, id |-> id, answer |-> answer]

\* `return v` after the requests b
Ret(v, b) == [returned |-> v, raised |-> "", backend |-> b]

\* an exception of class x leaves the method after the requests b
Raise(x, b) == [returned |-> "", raised |-> x, backend |-> b]

\* an exception raised inside a try whose first clause is `except JiraError`:
\* the name JiraError is looked up to match the exception, it is not defined
\* (the module imports JIRAError), and the NameError replaces the exception
ExceptJiraError(b) == Raise("NameError", b)

\* JiraService.create_issue
create_issue(client, t) ==
    IF ~_is_connected(client) THEN Ret("None", <<>>)
    ELSE IF t.accepts THEN Ret("issue", <<Op("create_issue", 0, <<>>)>>)
    ELSE ExceptJiraError(<<Op("create_issue", 0, <<>>)>>)

\* JiraService.get_issue
get_issue(client, t) ==
    IF ~_is_connected(client) THEN Ret("None", <<>>)
    ELSE IF t.found THEN Ret("issue", <<Op("issue", 0, <<>>)>>)
    ELSE ExceptJiraError(<<Op("issue", 0, <<>>)>>)

\* update_issue once get_issue is back: `if not issue`, the fields, the update
UpdateFound(issue, value, t) ==
    IF issue.raised # "" THEN issue
    ELSE IF issue.returned = "None" THEN Ret("False", issue.backend)
    ELSE IF value = <<>> THEN Ret("False", issue.backend)
    ELSE IF t.accepts THEN Ret("True", issue.backend \o <<Op("update", 0, <<>>)>>)
    ELSE ExceptJiraError(issue.backend \o <<Op("update", 0, <<>>)>>)

\* JiraService.update_issue(issue_key, field=value)
update_issue(client, value, t) ==
    IF ~_is_connected(client) THEN Ret("False", <<>>)
    ELSE UpdateFound(get_issue(client, t), value, t)

\* the `for t in transitions` loop from position i: the id of the first
\* transition whose name equals transition_name ignoring case, 0 for None.
\* The id of a transition is its position in the list.
RECURSIVE MatchingId(_, _, _)
MatchingId(transitions, transition_name, i) ==
    IF i > Len(transitions) THEN 0
    ELSE IF Lower(transitions[i]) = Lower(transition_name) THEN i
    ELSE MatchingId(transitions, transition_name, i + 1)

\* `if transition_id:` and the try around jira_client.transition_issue
TransitionChosen(transition_id, b, t) ==
    IF transition_id # 0
    THEN IF t.accepts THEN Ret("True", b \o <<Op("transition_issue", transition_id, <<>>)>>)
         ELSE ExceptJiraError(b \o <<Op("transition_issue", transition_id, <<>>)>>)
    ELSE Ret("False", b)

\* transition_issue once get_issue is back.  jira_client.transitions is
\* called outside any try: what it raises leaves the method as it is.
TransitionFound(issue, transition_name, t) ==
    IF issue.raised # "" THEN issue
    ELSE IF issue.returned = "None" THEN Ret("False", issue.backend)
    ELSE IF ~t.lists THEN Raise("JIRAError", issue.backend \o <<Op("transitions", 0, <<>>)>>)
    ELSE TransitionChosen(MatchingId(t.transitions, transition_name, 1),
                          issue.backend \o <<Op("transitions", 0, t.transitions)>>, t)

\* JiraService.transition_issue
transition_issue(client, transition_name, t) ==
    IF ~_is_connected(client) THEN Ret("None", <<>>)
    ELSE TransitionFound(get_issue(client, t), transition_name, t)

\* the call `call` of main made on the service object
Perform(client, call, t) ==
    IF call.method = "create_issue" THEN create_issue(client, t)
    ELSE IF call.method = "transition_issue" THEN transition_issue(client, call.args[2], t)
    ELSE IF call.method = "update_issue" THEN update_issue(client, call.args[2], t)
    ELSE Raise("AttributeError", <<>>)    \* JiraService has no add_comment

\* the calls of one pass of the loop body, none or one: how the pass can
\* end, over the answers of the tracker
Serve(client, calls) ==
    IF calls = <<>> THEN {NoOutcome}
    ELSE {Perform(client, calls[1], t) : t \in Trackers}

----------------------------------------------------------------------------
(* main.py: the command loop                                               *)

\* what the user types at the prompt
ExitInputs ==
    {W_exit, W_quit, Upper(W_exit), Space \o Capitalize(W_quit) \o Space}

MainInputs == Commands \cup ExitInputs

\* the program has started; nothing is constructed yet
MainInit ==
    /\ nlp = FALSE
    /\ pc = "start"
    /\ command_text = <<>>
    /\ parsed_data = NoResult
    /\ history = <<>>
    /\ jira_client = FALSE
    /\ invoked = <<>>
    /\ exit_status = <<>>
    /\ outcome = NoOutcome

\* sys.exit(1), or the interpreter ending on an uncaught exception
Exit1(how) ==
    /\ pc' = how
    /\ exit_status' = <<1>>

\* SetupChecks without the `if not nlu_processor.nlp` check
SetupChecks_NoModelCheck(js, loads) ==
    IF js.raised
    THEN nlp' = FALSE /\ jira_client' = FALSE /\ Exit1("crashed")
    ELSE /\ jira_client' = js.jira_client
         /\ nlp' = loads
         /\ IF ~_is_connected(js.jira_client) THEN Exit1("exited")
            ELSE pc' = "prompt" /\ exit_status' = <<>>

\* main up to the loop: both constructors, then the two checks
SetupChecks(js, loads) ==
    IF js.raised
    THEN nlp' = FALSE /\ jira_client' = FALSE /\ Exit1("crashed")
    ELSE /\ jira_client' = js.jira_client
         /\ nlp' = loads
         /\ IF ~_is_connected(js.jira_client) THEN Exit1("exited")
            ELSE IF ~loads THEN Exit1("exited")
            ELSE pc' = "prompt" /\ exit_status' = <<>>

Setup ==
    /\ pc = "start"
    /\ \E connects \in BOOLEAN, loads \in BOOLEAN :
        SetupChecks(JiraService_init(connects), loads)
    /\ UNCHANGED <<command_text, parsed_data, history, invoked, outcome>>

\* the exception classes `except Exception` matches, of those a pass of the
\* loop body can raise
Exceptions == {"NameError", "JIRAError", "AttributeError"}

\* the loop body without its try / except: what a call raises ends main
LoopBody_NoTry(command) ==
    IF Lower(command) \in {W_exit, W_quit}
    THEN /\ pc' = "exited"
         /\ exit_status' = <<0>>
         /\ UNCHANGED <<command_text, parsed_data, invoked, outcome>>
    ELSE /\ command_text' = command
         /\ parsed_data' = process_command(nlp, command)
         /\ invoked' = Handle(parsed_data')
         /\ outcome' \in Serve(jira_client, invoked')
         /\ IF outcome'.raised = ""
            THEN pc' = "handled" /\ UNCHANGED exit_status
            ELSE Exit1("crashed")

\* one pass of the loop body for the line typed, stripped: the exit check,
\* the classifier, the handler of the intent with the JiraService call it
\* makes, and the `except Exception` clause
LoopBody(command) ==
    IF Lower(command) \in {W_exit, W_quit}
    THEN /\ pc' = "exited"
         /\ exit_status' = <<0>>
         /\ UNCHANGED <<command_text, parsed_data, invoked, outcome>>
    ELSE /\ command_text' = command
         /\ parsed_data' = process_command(nlp, command)
         /\ invoked' = Handle(parsed_data')
         /\ outcome' \in Serve(jira_client, invoked')
         /\ IF outcome'.raised = "" \/ outcome'.raised \in Exceptions
            THEN pc' = "handled" /\ UNCHANGED exit_status
            ELSE Exit1("crashed")

HandleCommand ==
    /\ pc = "prompt"
    /\ \E line \in MainInputs : LoopBody(Strip(line))
    /\ UNCHANGED <<nlp, history, jira_client>>

\* back to the top of the loop
NextPrompt ==
    /\ pc = "handled"
    /\ pc' = "prompt"
    /\ command_text' = <<>>
    /\ parsed_data' = NoResult
    /\ invoked' = <<>>
    /\ outcome' = NoOutcome
    /\ UNCHANGED <<nlp, history, jira_client, exit_status>>

MainNext ==
    \/ Setup
    \/ HandleCommand
    \/ NextPrompt

MainSpec == MainInit /\ [][MainNext]_vars

\* the same program when a pass of the loop body that has ended goes on to
\* the next iteration of `while True`; the user may never type a line
MainLiveSpec == MainSpec /\ WF_vars(NextPrompt)

----------------------------------------------------------------------------
(* Properties of main.py                                                   *)

\* the loop is running: at the prompt or done with a command
InLoop == pc \in {"prompt", "handled"}

\* the program has ended
Ended == pc \in {"exited", "crashed"}

\* the set-up is degraded: no model or no connected client
Degraded == ~nlp \/ ~jira_client

C15_State ==
    /\ InLoop => ~Degraded
    /\ parsed_data # NoResult => nlp
    /\ invoked # <<>> => jira_client
    /\ Ended /\ Degraded =>
        exit_status = <<1>> /\ command_text = <<>> /\ parsed_data = NoResult /\ invoked = <<>>

\* a step that ends the set-up degraded ends the program with status 1, and
\* an ended program takes no further step
C15_Step ==
    /\ pc = "start" /\ (~nlp' \/ ~jira_client') => pc' \in {"exited", "crashed"} /\ exit_status' = <<1>>
    /\ ~Ended

\* C15: the loop never runs with a classifier that has no model or a service
\* that has no client: such a set-up ends the program with status 1 before a
\* command is read, so no process_command call and no service call is made.
C15_NoDegradedLoop == [](C15_State) /\ [][C15_Step]_vars

\* C15 witness: the client connected, the model did not load, and the
\* program ended with status 1.
C15_Witness ==
    pc = "exited" /\ jira_client /\ ~nlp /\ exit_status = <<1>>

\* the intent a service method belongs to and the entities it needs
C16_Allowed(call, intent, e) ==
    \/ /\ call.method = "create_issue" /\ intent = "create"
       /\ Truthy(e, "project_key") /\ Truthy(e, "summary")
    \/ /\ call.method = "transition_issue" /\ intent = "transition"
       /\ Truthy(e, "issue_key") /\ Truthy(e, "transition_name")
    \/ /\ call.method = "update_issue" /\ intent = "modify"
       /\ Truthy(e, "issue_key") /\ Truthy(e, "field") /\ Truthy(e, "new_value")

\* C16: for each command the loop calls at most one service method, only for
\* the intent it belongs to (create, transition, modify) and only when every
\* entity it needs is present and non-empty; for the unclear intents, unknown
\* and error it calls none.
C16_GuardedCalls ==
    /\ pc # "handled" => invoked = <<>>
    /\ pc = "handled" =>
        /\ Len(invoked) <= 1
        /\ parsed_data.intent \in {"unclear_create", "unclear_transition", "unclear_modify",
                                   "unknown", "error"} => invoked = <<>>
        /\ \A i \in DOMAIN invoked : C16_Allowed(invoked[i], parsed_data.intent, Entities)

\* C16 witness: the classifier returned create with a summary and no project
\* key, and the loop made no service call.
C16_Witness ==
    /\ pc = "handled" /\ parsed_data.intent = "create"
    /\ Truthy(Entities, "summary") /\ ~Truthy(Entities, "project_key")
    /\ invoked = <<>>

----------------------------------------------------------------------------
(* Properties of the classifier: the create branch                         *)

\* the project key a tail of Tails names, <<>> for a tail without a project clause
C17_TailKey(tail) ==
    IF tail = Tails[2] THEN <<"A","I","K">>
    ELSE IF tail = Tails[3] THEN <<"W","E","B">>
    ELSE <<>>

\* command, summary and project key (<<>> for none) of the commands whose
\* quoted summary holds a preposition and a token
C17_Cases ==
    {<<QuotedInnerOf(f), f.S, C17_TailKey(f.tail)>> : f \in QuotedInnerParams}

C17_Commands == {c[1] : c \in C17_Cases}

\* C17: when the quoted summary itself holds '(in|for|on) TOKEN', the project
\* key is the token of the clause that ends the command, or absent when no
\* project clause ends it, and the summary is the quoted text, whole.
C17_TrailingProjectOnly ==
    Returned /\ nlp /\ command_text \in C17_Commands =>
        /\ parsed_data.intent = "create"
        /\ "summary" \in DOMAIN Entities
        /\ <<command_text, Entities["summary"], Get(Entities, "project_key", <<>>)>> \in C17_Cases
        /\ "project_key" \in DOMAIN Entities => Entities["project_key"] # <<>>

\* C17 witness: 'create task 'Design UI in AJAX' in AIK' gave the project key
\* AIK and the whole summary.
C17_Witness ==
    /\ Returned /\ nlp
    /\ command_text = QuotedInnerOf([quote |-> Quotes[1], S |-> InnerSummaries[1], tail |-> Tails[2]])
    /\ Entities["project_key"] = <<"A","I","K">>
    /\ Entities["summary"] = InnerSummaries[1]

\* command, summary and project key of the create commands without quotes
C18_Cases ==
    {<<UnquotedFormOf(f), f.TEXT, Upper(f.K)>> : f \in UnquotedFormParams}

C18_Commands == {c[1] : c \in C18_Cases}

\* C18: a create command without quotes, '<create|new> [a|an] <type> TEXT
\* <in|for|on> [project] K', yields intent create with summary TEXT and
\* project_key K upper-cased; and a command with a quoted summary gets the
\* quoted text, not what the fallback rule would take.
C18_FallbackSummary ==
    Returned /\ nlp =>
        /\ command_text \in C18_Commands =>
            /\ parsed_data.intent = "create"
            /\ DOMAIN Entities = {"issue_type", "summary", "project_key"}
            /\ <<command_text, Entities["summary"], Entities["project_key"]>> \in C18_Cases
        /\ command_text \in C17_Commands =>
            "summary" \in DOMAIN Entities /\ Entities["summary"] \in Range(InnerSummaries)

\* C18 witness: 'create a task Sign in for project PROJ' gave the summary
\* 'Sign in', which holds a preposition itself, and the key PROJ.
C18_Witness ==
    /\ Returned /\ nlp
    /\ command_text = UnquotedFormOf([verb |-> Verbs[1], article |-> Articles[2], type |-> W_task,
                                      TEXT |-> Texts[2], prep |-> Prepositions[2],
                                      project |-> ProjectWord[2], K |-> UnquotedProjectKeys[1]])
    /\ parsed_data.intent = "create"
    /\ Entities["summary"] = Texts[2]
    /\ Entities["project_key"] = UnquotedProjectKeys[1]

\* 2 to 10 upper-case letters
C19_IsProjectKey(k) ==
    Len(k) >= 2 /\ Len(k) <= 10 /\ \A i \in DOMAIN k : k[i] \in UpperSet

\* 1 to 10 upper-case letters, a hyphen at h, one or more digits
C19_IsIssueKey(k) ==
    \E h \in DOMAIN k :
        /\ k[h] = "-" /\ h >= 2 /\ h <= 11 /\ h < Len(k)
        /\ \A i \in 1..(h - 1) : k[i] \in UpperSet
        /\ \A i \in (h + 1)..Len(k) : k[i] \in DigitSet

C19_Holds(intent, e) ==
    /\ "issue_type" \in DOMAIN e => e["issue_type"] \in {Capitalize(t) : t \in Range(TypeKeywords)}
    /\ intent \in {"create", "unclear_create"} =>
        "issue_type" \in DOMAIN e /\ DOMAIN e \subseteq CreateKeys
    /\ "project_key" \in DOMAIN e => C19_IsProjectKey(e["project_key"])
    /\ "issue_key" \in DOMAIN e => C19_IsIssueKey(e["issue_key"])
    /\ intent \in {"transition", "unclear_transition"} => DOMAIN e \subseteq TransitionKeys
    /\ intent \in {"modify", "unclear_modify"} => DOMAIN e \subseteq ModifyKeys
    /\ DOMAIN e \cap CreateKeys # {} => DOMAIN e \cap (TransitionKeys \cup ModifyKeys) = {}

\* C19: in every result issue_type is one of Story, Task, Defect, Bug and is
\* present in every create and unclear_create result; project_key is 2 to 10
\* upper-case letters; issue_key is 1 to 10 upper-case letters, a hyphen and
\* digits; and no result holds entity keys of another branch.
C19_ValueFormats == Returned /\ nlp => C19_Holds(parsed_data.intent, Entities)

\* C19 witness: a key typed in lower case, to-1, was returned as TO-1.
C19_Witness ==
    /\ Returned /\ nlp
    /\ Contains(command_text, IssueKeys[2])
    /\ "issue_key" \in DOMAIN Entities /\ Entities["issue_key"] = Upper(IssueKeys[2])

\* the create commands with a description clause, each with the text of its
\* summary (<<>> when it has none)
C20_Cases ==
    {<<DescriptionFormOf(f), Strip(Remove(f.summary, <<"'">>))>> : f \in DescriptionFormParams}

C20_Commands == {c[1] : c \in C20_Cases}

\* C20: for a create command with a clause '(with|and) description <quoted
\* D>' the summary is the command's own summary text, never D or a piece of
\* the description clause; when the command has no summary text the result is
\* unclear_create with no summary taken from the description.
C20_DescriptionApart ==
    Returned /\ nlp /\ command_text \in C20_Commands =>
        /\ "description" \in DOMAIN Entities
        /\ <<command_text, Get(Entities, "summary", <<>>)>> \in C20_Cases
        /\ ~Truthy(Entities, "summary") => parsed_data.intent = "unclear_create"

\* the create-form commands, each with the type keyword named after the verb
C21_Cases ==
    {<<CreateFormOf(f), Capitalize(f.type)>> : f \in CreateFormParams}

\* C21: for a create command that names its type right after create/new
\* [a|an], issue_type is that keyword capitalised, even when another type
\* keyword occurs elsewhere in the command, as inside the quoted summary.
C21_NamedType ==
    Returned /\ nlp /\ command_text \in C5_Commands =>
        /\ "issue_type" \in DOMAIN Entities
        /\ <<command_text, Entities["issue_type"]>> \in C21_Cases

----------------------------------------------------------------------------
(* Properties of main.py, continued                                        *)

\* C22: whenever the classifier returns modify, new_value is present and not
\* empty, so the loop's modify handler goes on to update_issue; and no entity
\* of any result is the empty string.
C22_ModifyComplete ==
    pc = "handled" =>
        /\ parsed_data.intent = "modify" =>
            /\ Truthy(Entities, "new_value")
            /\ Len(invoked) = 1 /\ invoked[1].method = "update_issue"
        /\ \A k \in DOMAIN Entities : Entities[k] # <<>>

\* one step of main seen from the loop: the loop is left only from the
\* prompt, with status 0 and with nothing classified and no service method
\* called in that step; a line that was classified is not exit or quit
C23_Step ==
    /\ InLoop /\ ~InLoop' =>
        /\ pc = "prompt" /\ pc' = "exited" /\ exit_status' = <<0>>
        /\ parsed_data' = NoResult /\ invoked' = <<>> /\ outcome' = NoOutcome
    /\ pc' = "handled" =>
        /\ Lower(command_text') \notin {W_exit, W_quit}
        /\ parsed_data' # NoResult

\* C23: the command loop keeps serving until the user types exit or quit in
\* any case and with any surrounding whitespace: an exception raised while a
\* command is classified or the backend is called is caught and followed by
\* the next prompt, a failing command never ends the loop, and exit or quit
\* is never passed to the classifier or to the backend.
C23_KeepsServing ==
    /\ [][C23_Step]_vars
    /\ (pc = "handled") ~> (pc = "prompt")
    /\ [](pc = "handled" /\ outcome.raised # "" => exit_status = <<>>)

\* C23 witness: a call of a service method raised, the loop body caught it
\* and main is still running
C23_Witness ==
    /\ pc = "handled" /\ exit_status = <<>>
    /\ Len(invoked) = 1 /\ outcome.raised = "NameError"

----------------------------------------------------------------------------
(* jira_service.py used on its own: a service object is constructed and    *)
(* its methods are called, one call at a time                              *)

\* transition names a caller passes
ServiceNames ==
    <<V_Closed, Upper(StatusWords[1]), V_Resolved>>    \* Closed, DONE, Resolved

\* field values a caller passes to update_issue
ServiceValues ==
    <<<<>>, Summaries[1]>>

\* before JiraService() is called
ServiceInit ==
    /\ nlp = FALSE
    /\ pc = "new"
    /\ command_text = <<>>
    /\ parsed_data = NoResult
    /\ history = <<>>
    /\ jira_client = FALSE
    /\ invoked = <<>>
    /\ exit_status = <<>>
    /\ outcome = NoOutcome

\* JiraService(): the object exists with its client, or the constructor raised
Construct ==
    /\ pc = "new"
    /\ \E connects \in BOOLEAN :
        /\ jira_client' = JiraService_init(connects).jira_client
        /\ IF JiraService_init(connects).raised
           THEN pc' = "failed" /\ outcome' = ExceptJiraError(<<Op("JIRA", 0, <<>>)>>)
           ELSE pc' = "ready" /\ outcome' = NoOutcome
    /\ UNCHANGED <<nlp, command_text, parsed_data, history, invoked, exit_status>>

\* one method call on the object: what was called, how it ended
MethodCall(call, result) ==
    /\ invoked' = <<call>>
    /\ outcome' = result
    /\ pc' = "called"
    /\ UNCHANGED <<nlp, command_text, parsed_data, history, jira_client, exit_status>>

CallCreateIssue ==
    /\ pc = "ready"
    /\ \E i \in DOMAIN Summaries, t \in Trackers :
            MethodCall(ServiceCall("create_issue", <<ProjectKeys[1], Summaries[i], <<>>, V_Story>>, ""),
                   create_issue(jira_client, t))

CallGetIssue ==
    /\ pc = "ready"
    /\ \E k \in DOMAIN IssueKeys, t \in Trackers :
            MethodCall(ServiceCall("get_issue", <<IssueKeys[k]>>, ""), get_issue(jira_client, t))

CallUpdateIssue ==
    /\ pc = "ready"
    /\ \E k \in DOMAIN IssueKeys, v \in DOMAIN ServiceValues, t \in Trackers :
            MethodCall(ServiceCall("update_issue", <<IssueKeys[k], ServiceValues[v]>>, "summary"),
                   update_issue(jira_client, ServiceValues[v], t))

CallTransitionIssue ==
    /\ pc = "ready"
    /\ \E k \in DOMAIN IssueKeys, n \in DOMAIN ServiceNames, t \in Trackers :
            MethodCall(ServiceCall("transition_issue", <<IssueKeys[k], ServiceNames[n]>>, ""),
                   transition_issue(jira_client, ServiceNames[n], t))

\* the caller has the result and may call again
ServiceReturn ==
    /\ pc = "called"
    /\ pc' = "ready"
    /\ invoked' = <<>>
    /\ outcome' = NoOutcome
    /\ UNCHANGED <<nlp, command_text, parsed_data, history, jira_client, exit_status>>

ServiceNext ==
    \/ Construct
    \/ CallCreateIssue
    \/ CallGetIssue
    \/ CallUpdateIssue
    \/ CallTransitionIssue
    \/ ServiceReturn

ServiceSpec == ServiceInit /\ [][ServiceNext]_vars

----------------------------------------------------------------------------
(* Properties of jira_service.py                                           *)

\* the values the methods are documented to return
C24_Values ==
    [create_issue |-> {"issue", "None"}, get_issue |-> {"issue", "None"},
     update_issue |-> {"True", "False"}, transition_issue |-> {"True", "False", "None"}]

\* C24: backend failures are reported as values, not exceptions: when the
\* connection fails the constructor completes with jira_client = None, so
\* that _is_connected() is False, and when the tracker refuses a lookup or
\* an operation get_issue returns None and create_issue, update_issue and
\* transition_issue return None or False; no exception leaves these methods.
C24_FailuresAreValues ==
    /\ pc # "failed"
    /\ outcome.raised = ""
    /\ pc = "called" => outcome.returned \in C24_Values[invoked[1].method]

\* the positions in the requests b where the client method `name` was called
C25_Requests(b, name) == {i \in DOMAIN b : b[i].op = name}

\* the transition names in `transitions` equal to transition_name ignoring case
C25_Matches(transitions, transition_name) ==
    {j \in DOMAIN transitions : Lower(transitions[j]) = Lower(transition_name)}

\* the claim for one finished call transition_issue(_, transition_name) with
\* outcome o on a service whose client is `client`
C25_Holds(client, transition_name, o) ==
    /\ o.raised = ""
    /\ o.returned \in {"True", "False"}
    /\ Cardinality(C25_Requests(o.backend, "transition_issue")) <= 1
    /\ \A i \in C25_Requests(o.backend, "transition_issue") :
        /\ client
        /\ C25_Requests(o.backend, "issue") # {}
        /\ \E l \in C25_Requests(o.backend, "transitions") :
            /\ l < i
            /\ o.backend[i].id \in C25_Matches(o.backend[l].answer, transition_name)
            /\ \A j \in C25_Matches(o.backend[l].answer, transition_name) :
                o.backend[i].id <= j
    /\ C25_Requests(o.backend, "transition_issue") = {} =>
        /\ o.returned = "False"
        /\ \A l \in C25_Requests(o.backend, "transitions") :
            C25_Matches(o.backend[l].answer, transition_name) = {}

\* C25: transition_issue performs the backend transition at most once per
\* call, and only when the service is connected, the issue exists and one of
\* the issue's transitions has the name transition_name ignoring case, the
\* first such transition being the one used; in every other case it performs
\* no backend transition and returns False, and what it returns is always
\* True or False.
C25_TransitionOnce ==
    pc = "called" /\ invoked[1].method = "transition_issue" =>
        C25_Holds(jira_client, invoked[1].args[2], outcome)

=============================================================================
